---- MODULE Spec2Model ----
(***************************************************************************)
(* @seriphxyz/react: nine React hooks, each bridging one controller of     *)
(* @seriphxyz/core to a component.  One hook instance is modelled: its     *)
(* useRef cell, its useState cell, its effect (with cleanup), its action   *)
(* callbacks and its render result, together with the controllers it has   *)
(* constructed and the operations in flight on them.                       *)
(* A second specification, SpecInstances, runs two instances of one hook    *)
(* under the same options, from mount to unmount.                          *)
(***************************************************************************)
EXTENDS Integers, Sequences, FiniteSets, TLC

VARIABLES
    hook,           \* which of the nine hooks this instance is
    pc,             \* lifecycle position of the component
    options,        \* the options object of the latest render
    controllerRef,  \* controllerRef.current: 0 is null, else an index into controllers
    state,          \* the useState cell (the mirrored snapshot)
    stateSrc,       \* history: controller whose notification last wrote state (0: none)
    controllers,    \* every controller constructed so far, in construction order
    ops,            \* every action call made so far with its promise, in call order
    ev,             \* history: the step that led to this state
    instances,      \* two instances of the hook under one configuration: their cells
    pool            \* the controllers those two instances use, with their listeners

vars == <<hook, pc, options, controllerRef, state, stateSrc, controllers, ops, ev,
          instances, pool>>

\* ------------------------------------------------------------------ bounds
MaxControllers == 2
MaxCalls == 2

\* ------------------------------------------------------------------ values
Null == "null"

Hooks ==
    {"useSubscribe", "useForm", "useReactions", "useComments", "useWaitlist",
     "useViews", "useFeedback", "usePoll", "useAnnouncements"}

SiteKeys == {"k1", "k2"}
Endpoints == {"undefined", "e1"}
Identifiers == {"a", "b"}
AutoValues == {"omitted", "true", "false"}

\* Hooks whose options have an identifier (formSlug, contentId, pageId, slug), and
\* hooks whose options have autoFetch / autoRecord.
IdentifierOptionHooks == {"useForm", "useReactions", "useComments", "useViews", "usePoll"}
AutoOptionHooks == {"useReactions", "useComments", "useViews", "usePoll", "useAnnouncements"}

\* The options of the first render, but for `auto`.
FirstOptions == [siteKey |-> "k1", endpoint |-> "undefined", id |-> "a", auto |-> "omitted"]

\* The options objects a component passes to hook h: those that differ from
\* FirstOptions in at most one property.  `id` is the hook's identifier option and
\* `auto` is autoFetch / autoRecord; a property the options type of h does not have
\* keeps its first value.
Options(h) ==
    {o \in [siteKey : SiteKeys, endpoint : Endpoints, id : Identifiers, auto : AutoValues] :
        /\ Cardinality({f \in DOMAIN o : o[f] # FirstOptions[f]}) <= 1
        /\ h \notin IdentifierOptionHooks => o.id = FirstOptions.id
        /\ h \notin AutoOptionHooks => o.auto = FirstOptions.auto}

\* The options of the first render.
InitialOptions(h) ==
    {o \in Options(h) : [o EXCEPT !.auto = FirstOptions.auto] = FirstOptions}

Errors == {"E1"}

\* ---------------------------------------------------------- state snapshots
\* A nullable number is the set of its values: {} is null.
MessageHooks == {"useSubscribe", "useForm", "useFeedback"}

\* A useState initialiser that starts every hook in the loading status.
InitialStateLoading(h, o) ==
    CASE h \in {"useSubscribe", "useForm", "useFeedback"} ->
            [status |-> "loading", message |-> Null, error |-> Null]
      [] h = "useWaitlist" ->
            [status |-> "loading", message |-> Null, position |-> {}, error |-> Null]
      [] h = "useReactions" ->
            [counts |-> {}, userReactions |-> <<>>, status |-> "loading", error |-> Null]
      [] h = "useComments" ->
            [comments |-> <<>>, status |-> "loading", error |-> Null]
      [] h = "useViews" ->
            [pageId |-> o.id, views |-> 0, uniqueVisitors |-> 0, status |-> "loading",
             error |-> Null]
      [] h = "usePoll" ->
            [poll |-> Null, status |-> "loading", error |-> Null]
      [] h = "useAnnouncements" ->
            [announcements |-> <<>>, dismissed |-> {}, status |-> "loading",
             error |-> Null]

\* The useState initialiser of each hook.
InitialState(h, o) ==
    CASE h \in MessageHooks ->
            [status |-> "idle", message |-> Null, error |-> Null]
      [] h = "useWaitlist" ->
            [status |-> "idle", message |-> Null, position |-> {}, error |-> Null]
      [] h = "useReactions" ->
            [counts |-> {}, userReactions |-> <<>>, status |-> "idle", error |-> Null]
      [] h = "useComments" ->
            [comments |-> <<>>, status |-> "idle", error |-> Null]
      [] h = "useViews" ->
            [pageId |-> o.id, views |-> 0, uniqueVisitors |-> 0, status |-> "idle",
             error |-> Null]
      [] h = "usePoll" ->
            [poll |-> Null, status |-> "idle", error |-> Null]
      [] h = "useAnnouncements" ->
            [announcements |-> <<>>, dismissed |-> {}, status |-> "idle", error |-> Null]

\* The snapshots a controller of hook h, constructed with identifier fid, may emit.
Snapshots(h, fid) ==
    CASE h \in MessageHooks ->
            {[status |-> "idle", message |-> Null, error |-> Null],
             [status |-> "loading", message |-> Null, error |-> Null],
             [status |-> "success", message |-> "m1", error |-> Null],
             [status |-> "error", message |-> Null, error |-> "E1"]}
      [] h = "useWaitlist" ->
            {[status |-> "idle", message |-> Null, position |-> {}, error |-> Null],
             [status |-> "loading", message |-> Null, position |-> {}, error |-> Null],
             [status |-> "success", message |-> "m1", position |-> {7}, error |-> Null],
             [status |-> "error", message |-> Null, position |-> {}, error |-> "E1"]}
      [] h = "useReactions" ->
            {[counts |-> {}, userReactions |-> <<>>, status |-> "idle", error |-> Null],
             [counts |-> {}, userReactions |-> <<>>, status |-> "loading", error |-> Null],
             [counts |-> {<<"like", 1>>}, userReactions |-> <<"like">>,
              status |-> "success", error |-> Null],
             [counts |-> {}, userReactions |-> <<>>, status |-> "error", error |-> "E1"]}
      [] h = "useComments" ->
            {[comments |-> <<>>, status |-> "idle", error |-> Null],
             [comments |-> <<>>, status |-> "loading", error |-> Null],
             [comments |-> <<"c1">>, status |-> "success", error |-> Null],
             [comments |-> <<>>, status |-> "error", error |-> "E1"]}
      [] h = "useViews" ->
            {[pageId |-> fid, views |-> 0, uniqueVisitors |-> 0, status |-> "idle",
              error |-> Null],
             [pageId |-> fid, views |-> 0, uniqueVisitors |-> 0, status |-> "loading",
              error |-> Null],
             [pageId |-> fid, views |-> 5, uniqueVisitors |-> 3, status |-> "success",
              error |-> Null],
             [pageId |-> fid, views |-> 0, uniqueVisitors |-> 0, status |-> "error",
              error |-> "E1"]}
      [] h = "usePoll" ->
            {[poll |-> Null, status |-> "idle", error |-> Null],
             [poll |-> Null, status |-> "loading", error |-> Null],
             [poll |-> "p1", status |-> "success", error |-> Null],
             [poll |-> Null, status |-> "error", error |-> "E1"]}
      [] h = "useAnnouncements" ->
            {[announcements |-> <<>>, dismissed |-> {}, status |-> "idle", error |-> Null],
             [announcements |-> <<>>, dismissed |-> {}, status |-> "loading",
              error |-> Null],
             [announcements |-> <<"x", "y">>, dismissed |-> {}, status |-> "success",
              error |-> Null],
             [announcements |-> <<>>, dismissed |-> {}, status |-> "error",
              error |-> "E1"]}

\* "No snapshot": the value of an emission that did not happen.
NoSnap == [none |-> TRUE]

LoadingSnapshot(h, fid) == CHOOSE s \in Snapshots(h, fid) : s.status = "loading"
IdleSnapshot(h, fid) == CHOOSE s \in Snapshots(h, fid) : s.status = "idle"

\* ------------------------------------------------------ per-hook code tables
\* Hooks whose controller constructor takes a feature identifier as 2nd argument.
IdentifierHooks == {"useForm", "useReactions", "useComments", "useViews", "usePoll"}

\* A dependency array that also lists the auto-trigger option.
DepsWithAuto(h, o) ==
    IF h \in IdentifierHooks
    THEN <<o.siteKey, o.endpoint, o.id, o.auto>>
    ELSE <<o.siteKey, o.endpoint, o.auto>>

\* A dependency array that leaves the endpoint out.
DepsWithoutEndpoint(h, o) ==
    IF h \in IdentifierHooks THEN <<o.siteKey, o.id>> ELSE <<o.siteKey>>

\* The dependency array of the hook's useEffect.
Deps(h, o) ==
    IF h \in IdentifierHooks
    THEN <<o.siteKey, o.endpoint, o.id>>
    ELSE <<o.siteKey, o.endpoint>>

\* An effect that starts a fetch in every hook, the write-oriented ones included.
AutoMethodEverywhere(h) == IF h = "useViews" THEN "record" ELSE "fetch"

\* The operation the effect starts right after subscribing ("none": no such code).
AutoMethod(h) ==
    CASE h \in {"useReactions", "useComments", "usePoll", "useAnnouncements"} -> "fetch"
      [] h = "useViews" -> "record"
      [] OTHER -> "none"

\* A test that takes an omitted option for false: `options.autoFetch === true`.
AutoOnlyWhenTrue(o) == o.auto = "true"

\* `options.autoFetch !== false` / `options.autoRecord !== false`
AutoEnabled(o) == o.auto # "false"

\* The action functions each hook returns (reset is separate: it is synchronous).
Actions(h) ==
    CASE h = "useSubscribe" -> {"subscribe"}
      [] h = "useForm" -> {"submit"}
      [] h = "useReactions" -> {"addReaction", "removeReaction", "refresh"}
      [] h = "useComments" -> {"postComment", "refresh"}
      [] h = "useWaitlist" -> {"join"}
      [] h = "useViews" -> {"record", "refresh"}
      [] h = "useFeedback" -> {"submit"}
      [] h = "usePoll" -> {"vote", "refresh"}
      [] h = "useAnnouncements" -> {"dismiss", "refresh"}

\* Number of parameters of an action function.
Arity(h, fn) ==
    CASE fn \in {"refresh", "record"} -> 0
      [] fn = "postComment" -> 3
      [] fn = "join" -> 2
      [] fn = "submit" /\ h = "useFeedback" -> 3
      [] OTHER -> 1

\* The value of a parameter the call passed no argument for.
Undefined == "undefined"

\* The argument lists a caller passes to a function of n parameters: one
\* argument per parameter, the same in reverse order, one argument more (as
\* onClick={refresh} passes the event) and one fewer (an optional last
\* parameter left out).
ArgLists(n) ==
    {[i \in 1..n |-> <<"x", "y", "z">>[i]],
     [i \in 1..n |-> <<"x", "y", "z">>[n + 1 - i]],
     [i \in 1..(n + 1) |-> <<"x", "y", "z", "w">>[i]]}
        \cup (IF n > 0 THEN {[i \in 1..(n - 1) |-> <<"x", "y", "z">>[i]]} ELSE {})

\* What the callback's declared parameters hold in a call with `args`: the
\* arguments in order, cut to the number of parameters, undefined where the
\* call passed none.
Parameters(h, fn, args) ==
    [k \in 1..Arity(h, fn) |-> IF k <= Len(args) THEN args[k] ELSE Undefined]

\* A forwarding that passes only the first argument on.
ForwardFirstArgument(h, fn, args) ==
    <<CASE fn \in {"subscribe", "submit"} -> "submit"
        [] fn = "addReaction" -> "add"
        [] fn = "removeReaction" -> "remove"
        [] fn = "postComment" -> "post"
        [] fn = "refresh" -> "fetch"
        [] OTHER -> fn,
      SubSeq(args, 1, IF Len(args) > 1 THEN 1 ELSE Len(args))>>

\* What an action function calls on the controller: <<method, arguments>>.  The
\* callback hands on its declared parameters one by one, e.g.
\* `async (email) => { await controllerRef.current?.submit(email) }`.
Forward(h, fn, args) ==
    CASE fn = "subscribe" -> <<"submit", Parameters(h, fn, args)>>
      [] fn = "submit" -> <<"submit", Parameters(h, fn, args)>>
      [] fn = "addReaction" -> <<"add", Parameters(h, fn, args)>>
      [] fn = "removeReaction" -> <<"remove", Parameters(h, fn, args)>>
      [] fn = "postComment" -> <<"post", Parameters(h, fn, args)>>
      [] fn = "join" -> <<"join", Parameters(h, fn, args)>>
      [] fn = "record" -> <<"record", Parameters(h, fn, args)>>
      [] fn = "vote" -> <<"vote", Parameters(h, fn, args)>>
      [] fn = "dismiss" -> <<"dismiss", Parameters(h, fn, args)>>
      [] fn = "refresh" -> <<"fetch", Parameters(h, fn, args)>>

ResetHooks == {"useSubscribe", "useForm", "useWaitlist", "useFeedback"}

\* ----------------------------------------------------- @seriphxyz/core side
DEFAULT_ENDPOINT == "default"

resolveConfig(o) ==
    [siteKey |-> o.siteKey,
     endpoint |-> IF o.endpoint = "undefined" THEN DEFAULT_ENDPOINT ELSE o.endpoint]

\* new XController(config [, identifier]): no listener yet, status idle.
NewController(h, config, fid) ==
    [config |-> config, fid |-> fid, subscribed |-> FALSE, reading |-> FALSE,
     announcements |-> <<>>, dismissed |-> {}, voted |-> FALSE]

\* controller.subscribe(listener): the listener joins the controller's listeners.
SubscribeListener(ctrl) == [ctrl EXCEPT !.subscribed = TRUE]

\* The function subscribe returned: the listener leaves the controller's listeners.
UnsubscribeListener(ctrl) == [ctrl EXCEPT !.subscribed = FALSE]

\* The controller changes its state to s and notifies its listeners.  Of its
\* state only what its synchronous queries read is kept.
SetControllerState(h, ctrl, s) ==
    IF s = NoSnap \/ h # "useAnnouncements"
    THEN ctrl
    ELSE [ctrl EXCEPT !.announcements = s.announcements, !.dismissed = s.dismissed]

\* PollController.hasVoted()
hasVoted(ctrl) == ctrl.voted

\* AnnouncementsController.getVisibleAnnouncements(): those not yet dismissed.
getVisibleAnnouncements(ctrl) ==
    SelectSeq(ctrl.announcements, LAMBDA a : a \notin ctrl.dismissed)

\* The announcement a dismiss call of the model can name.
DismissableIds == {"x"}

\* What a controller operation emits synchronously when it is called: the
\* loading snapshot, which for announcements keeps what the controller holds.
SyncEmits(h, ctrl) ==
    IF h = "useAnnouncements"
    THEN {[announcements |-> ctrl.announcements, dismissed |-> ctrl.dismissed,
           status |-> "loading", error |-> Null]}
    ELSE {LoadingSnapshot(h, ctrl.fid)}

\* What an operation of controller ctrl may emit when it completes.  A snapshot
\* of announcements carries the dismissals the controller holds: an announcement
\* once dismissed is never "not yet dismissed" again.
FinalEmits(h, ctrl) ==
    {NoSnap} \cup
    IF h = "useAnnouncements"
    THEN {[s EXCEPT !.dismissed = ctrl.dismissed] :
             s \in {u \in Snapshots(h, ctrl.fid) : u.status # "loading"}}
    ELSE {s \in Snapshots(h, ctrl.fid) : s.status # "loading"}

\* ----------------------------------------------------------- React side
\* A listener that merges the snapshot into the previous state: a null error of
\* the snapshot does not overwrite the error stored before.
ListenerMerging(ctrl, s, old) ==
    IF ctrl.subscribed /\ s # NoSnap
    THEN [s EXCEPT !.error = IF s.error = Null THEN old.error ELSE s.error]
    ELSE old

\* setState(snapshot) as the controller's listener: the state cell is replaced.
\* The listener runs only while it is among the controller's listeners.
Listener(ctrl, s, old) == IF ctrl.subscribed /\ s # NoSnap THEN s ELSE old

ListenerSrc(ctrl, c, s, old) == IF ctrl.subscribed /\ s # NoSnap THEN c ELSE old

\* A useAnnouncements that returns the stored snapshot's list, dismissed included.
ReturnAllAnnouncements(h, st, ref, ctrls) ==
    CASE h = "useViews" ->
            [views |-> st.views, uniqueVisitors |-> st.uniqueVisitors,
             status |-> st.status, error |-> st.error]
      [] h = "usePoll" ->
            [poll |-> st.poll, status |-> st.status, error |-> st.error,
             hasVoted |-> IF ref = 0 THEN FALSE ELSE ctrls[ref].voted]
      [] h = "useAnnouncements" ->
            [announcements |-> st.announcements, status |-> st.status,
             error |-> st.error]
      [] OTHER -> st

\* A hook that returns the stored snapshot as it is.
ReturnStored(h, st, ref, ctrls) == st

\* The data fields of the object the hook returns.
Return(h, st, ref, ctrls) ==
    CASE h = "useViews" ->
            [views |-> st.views, uniqueVisitors |-> st.uniqueVisitors,
             status |-> st.status, error |-> st.error]
      [] h = "usePoll" ->
            [poll |-> st.poll, status |-> st.status, error |-> st.error,
             hasVoted |-> IF ref = 0 THEN FALSE ELSE hasVoted(ctrls[ref])]
      [] h = "useAnnouncements" ->
            [announcements |->
                IF ref = 0 THEN <<>> ELSE getVisibleAnnouncements(ctrls[ref]),
             status |-> st.status, error |-> st.error]
      [] OTHER -> st

NoReturn == [none |-> TRUE]

\* One controller method invocation made by the hook.
Call(c, m, a) == [ctrl |-> c, method |-> m, args |-> a]

Ev(kind) ==
    [kind |-> kind, ctrl |-> 0, emitted |-> FALSE, snap |-> NoSnap, fn |-> "none",
     args |-> <<>>, invoked |-> <<>>, ret |-> NoReturn]

\* The step in which controller c (record ctrl) emits s: `snap` is what its
\* listeners are handed, NoSnap when it has none.
Emission(kind, c, ctrl, s) ==
    [Ev(kind) EXCEPT !.ctrl = c, !.emitted = (s # NoSnap),
                     !.snap = IF ctrl.subscribed THEN s ELSE NoSnap]

\* A call that dereferences a null controllerRef.current and throws.
OpThrowingWhenAbsent(c, m, a, promise) ==
    [ctrl |-> c, votes |-> (m = "vote"),
     dismisses |-> IF m = "dismiss" THEN {a[1]} \cap DismissableIds ELSE {},
     stage |-> IF c = 0 THEN "failed" ELSE "pending",
     err |-> IF c = 0 THEN "E1" ELSE Null,
     promise |-> promise, perr |-> Null]

\* An action call: its controller, whether it votes, the announcement it
\* dismisses (a set, empty when none), the stage of the controller operation
\* ("none": nothing was called), and the caller's promise.
Op(c, m, a, promise) ==
    [ctrl |-> c, votes |-> (m = "vote"),
     dismisses |-> IF m = "dismiss" THEN {a[1]} \cap DismissableIds ELSE {},
     stage |-> IF c = 0 THEN "none" ELSE "pending", err |-> Null,
     promise |-> promise, perr |-> Null]

\* ------------------------------------------------------------------ state
\* The two instances of the two-instance specification.
Instances == {1, 2}

InitialInstance(h, o) ==
    [pc |-> "init", controllerRef |-> 0, state |-> InitialState(h, o), stateSrc |-> 0]

Init ==
    /\ hook \in Hooks
    /\ options \in InitialOptions(hook)
    /\ pc = "init"
    /\ controllerRef = 0
    /\ state = InitialState(hook, options)
    /\ stateSrc = 0
    /\ controllers = <<>>
    /\ ops = <<>>
    /\ ev = Ev("init")
    /\ instances = [i \in Instances |-> InitialInstance(hook, options)]
    /\ pool = <<>>

Latest == Len(controllers)

\* A torn-down controller that controllerRef no longer names cannot be queried
\* again; once it has nothing in flight either, it cannot be heard from again.
Unqueried(ctrls, c, ref) == c # ref /\ ~ctrls[c].subscribed

InFlight(ctrls, c, calls) ==
    \/ ctrls[c].reading
    \/ \E i \in 1..Len(calls) : calls[i].ctrl = c /\ calls[i].stage = "pending"

Collected ==
    [config |-> [siteKey |-> Null, endpoint |-> Null], fid |-> Null,
     subscribed |-> FALSE, reading |-> FALSE,
     announcements |-> <<>>, dismissed |-> {}, voted |-> FALSE]

\* The controllers, with what can no longer be observed of them dropped.
Collect(ctrls, ref, calls) ==
    [c \in 1..Len(ctrls) |->
        IF ~Unqueried(ctrls, c, ref) THEN ctrls[c]
        ELSE IF InFlight(ctrls, c, calls)
             THEN [Collected EXCEPT !.fid = ctrls[c].fid, !.reading = ctrls[c].reading]
             ELSE Collected]

\* -------------------------------------------------- rendering and effects
\* First render: useRef(null), useState(initial), the effect is scheduled.
Mount ==
    /\ pc = "init"
    /\ pc' = "effect"
    /\ ev' = [Ev("render") EXCEPT !.ret = Return(hook, state, controllerRef, controllers)]
    /\ UNCHANGED <<instances, pool, hook, options, controllerRef, state, stateSrc, controllers, ops>>

\* A render that re-initialises the state cell when a dependency changed.
RenderResetting(o) ==
    /\ pc = "idle"
    /\ Deps(hook, o) # Deps(hook, options) => Latest < MaxControllers
    /\ options' = o
    /\ pc' = IF Deps(hook, o) # Deps(hook, options) THEN "cleanup" ELSE "idle"
    /\ state' = IF Deps(hook, o) # Deps(hook, options) THEN InitialState(hook, o) ELSE state
    /\ ev' = [Ev("render") EXCEPT !.ret = Return(hook, state', controllerRef, controllers)]
    /\ UNCHANGED <<instances, pool, hook, controllerRef, stateSrc, controllers, ops>>

\* A later render with options o: the effect (cleanup first) is scheduled when a
\* dependency differs from the previous render's.
Render(o) ==
    /\ pc = "idle"
    /\ Deps(hook, o) # Deps(hook, options) => Latest < MaxControllers
    /\ options' = o
    /\ pc' = IF Deps(hook, o) # Deps(hook, options) THEN "cleanup" ELSE "idle"
    /\ ev' = [Ev("render") EXCEPT !.ret = Return(hook, state, controllerRef, controllers)]
    /\ UNCHANGED <<instances, pool, hook, controllerRef, state, stateSrc, controllers, ops>>

\* An effect that returns no cleanup: the listener stays registered.
KeepSubscribed(ctrls) == ctrls

\* The effect's cleanup: the unsubscribe function of the controller that the
\* previous run of the effect constructed.
Unsubscribe(ctrls) == [ctrls EXCEPT ![Len(ctrls)] = UnsubscribeListener(@)]

\* A cleanup that runs on unmount only: a configuration change leaves the old
\* controller's listener registered.
CleanupOnUnmountOnly ==
    /\ pc = "cleanup"
    /\ pc' = "effect"
    /\ ev' = Ev("cleanup")
    /\ UNCHANGED <<instances, pool, hook, options, controllerRef, state, stateSrc, controllers, ops>>

Cleanup ==
    /\ pc = "cleanup"
    /\ controllers' = Collect(Unsubscribe(controllers), controllerRef, ops)
    /\ pc' = "effect"
    /\ ev' = [Ev("cleanup") EXCEPT !.ctrl = Latest,
                                   !.invoked = <<Call(Latest, "unsubscribe", <<>>)>>]
    /\ UNCHANGED <<instances, pool, hook, options, controllerRef, state, stateSrc, ops>>

Unmount ==
    /\ pc = "idle"
    /\ controllers' = Collect(Unsubscribe(controllers), controllerRef, ops)
    /\ pc' = "unmounted"
    /\ ev' = [Ev("unmount") EXCEPT !.ctrl = Latest,
                                   !.invoked = <<Call(Latest, "unsubscribe", <<>>)>>]
    /\ UNCHANGED <<instances, pool, hook, options, controllerRef, state, stateSrc, ops>>

\* The controller the effect constructs.
Construct(h, o) ==
    NewController(h, resolveConfig(o), IF h \in IdentifierHooks THEN o.id ELSE Null)

\* Whether the effect starts the initial read.
AutoTrigger(h, o) == AutoMethod(h) # "none" /\ AutoEnabled(o)

\* An effect that starts the initial read before it subscribes.
EffectCallsReadFirst(h, o, c) ==
    <<Call(c, "new", <<>>)>>
    \o (IF AutoTrigger(h, o) THEN <<Call(c, AutoMethod(h), <<>>)>> ELSE <<>>)
    \o <<Call(c, "subscribe", <<>>)>>

\* The effect's calls for the new controller c, in order.
EffectCalls(h, o, c) ==
    <<Call(c, "new", <<>>), Call(c, "subscribe", <<>>)>>
    \o (IF AutoTrigger(h, o) THEN <<Call(c, AutoMethod(h), <<>>)>> ELSE <<>>)

\* The effect body: construct, store in the ref, subscribe setState, start the
\* initial read.  `emit` is what the read emits synchronously.  The read is not
\* awaited: only the controller knows it is in flight.
EffectBody ==
    /\ pc = "effect"
    /\ LET c == Latest + 1
           controller == Construct(hook, options)
           listening == SubscribeListener(controller)
           auto == AutoTrigger(hook, options)
       IN \E emit \in SyncEmits(hook, controller) :
            LET s == IF auto THEN emit ELSE NoSnap
            IN /\ controllers' =
                    Collect(Append(controllers,
                                   [SetControllerState(hook, listening, s) EXCEPT
                                        !.reading = auto]),
                            c, ops)
               /\ controllerRef' = c
               /\ state' = Listener(listening, s, state)
               /\ stateSrc' = ListenerSrc(listening, c, s, stateSrc)
               /\ ev' = [Emission("effect", c, listening, s) EXCEPT
                            !.invoked = EffectCalls(hook, options, c)]
    /\ pc' = "idle"
    /\ UNCHANGED <<instances, pool, hook, options, ops>>

\* ------------------------------------------------------- action callbacks
\* An action function: `await controllerRef.current?.method(...args)`.  It can be
\* called once the first render has returned it, also from an effect of another
\* component that runs between this hook's cleanup and its effect, and again
\* while the promise of an earlier call is pending: nothing makes a call wait
\* for another.
CallAction(fn, args) ==
    /\ pc \in {"effect", "cleanup", "idle", "unmounted"}
    /\ Len(ops) < MaxCalls
    /\ LET fwd == Forward(hook, fn, args)
           c == controllerRef
       IN IF c = 0
          THEN /\ ops' = Append(ops, Op(0, "none", <<>>, "waiting"))
               /\ ev' = [Ev("call") EXCEPT !.fn = fn, !.args = args]
               /\ UNCHANGED <<controllers, state, stateSrc>>
          ELSE \E s \in SyncEmits(hook, controllers[c]) :
               /\ ops' = Append(ops, Op(c, fwd[1], fwd[2], "waiting"))
               /\ controllers' = [controllers EXCEPT ![c] = SetControllerState(hook, @, s)]
               /\ state' = Listener(controllers[c], s, state)
               /\ stateSrc' = ListenerSrc(controllers[c], c, s, stateSrc)
               /\ ev' = [Emission("call", c, controllers[c], s) EXCEPT
                            !.fn = fn, !.args = args,
                            !.invoked = <<Call(c, fwd[1], fwd[2])>>]
    /\ UNCHANGED <<instances, pool, hook, pc, options, controllerRef>>

\* A wrapper that does not await the controller's promise.
ResumeAtOnce(op) == TRUE

\* A wrapper that catches the controller's error and resolves.
SettleSwallowing(op) == [op EXCEPT !.promise = "resolved"]

\* `await`: the caller resumes once the awaited operation has settled.
CanResume(op) == op.stage # "pending"

\* The outcome of the async wrapper: it has no try/catch.
Settle(op) ==
    IF op.stage = "failed"
    THEN [op EXCEPT !.promise = "rejected", !.perr = op.err]
    ELSE [op EXCEPT !.promise = "resolved"]

\* Microtasks run: the callers in I, whose awaited operations have settled,
\* resume.  Between a first render and its effect the event loop may run them
\* (calls made then awaited undefined); a cleanup and the effect that follows
\* it are one synchronous flush, with no microtask in between.
Resume(I) ==
    /\ I # {}
    /\ pc = "effect" => Latest = 0
    /\ \A i \in I : ops[i].promise = "waiting" /\ CanResume(ops[i])
    /\ ops' = [i \in 1..Len(ops) |-> IF i \in I THEN Settle(ops[i]) ELSE ops[i]]
    /\ ev' = [Ev("resume") EXCEPT
                 !.ctrl = ops[CHOOSE i \in I : \A j \in I : i <= j].ctrl]
    /\ UNCHANGED <<instances, pool, hook, pc, options, controllerRef, state, stateSrc, controllers>>

\* A reset that re-initialises the hook's own state and calls no controller.
ResetWithoutController ==
    /\ hook \in ResetHooks
    /\ pc \in {"effect", "cleanup", "idle", "unmounted"}
    /\ state' = InitialState(hook, options)
    /\ ev' = [Ev("reset") EXCEPT !.fn = "reset"]
    /\ UNCHANGED <<instances, pool, hook, pc, options, controllerRef, stateSrc, controllers, ops>>

\* reset: `controllerRef.current?.reset()`; the controller returns to idle and
\* notifies.
CallReset ==
    /\ hook \in ResetHooks
    /\ pc \in {"effect", "cleanup", "idle", "unmounted"}
    /\ LET c == controllerRef
       IN IF c = 0
          THEN /\ ev' = [Ev("reset") EXCEPT !.fn = "reset"]
               /\ UNCHANGED <<controllers, state, stateSrc>>
          ELSE LET s == IdleSnapshot(hook, controllers[c].fid)
               IN /\ controllers' = [controllers EXCEPT ![c] = SetControllerState(hook, @, s)]
                  /\ state' = Listener(controllers[c], s, state)
                  /\ stateSrc' = ListenerSrc(controllers[c], c, s, stateSrc)
                  /\ ev' = [Emission("reset", c, controllers[c], s) EXCEPT
                               !.fn = "reset", !.invoked = <<Call(c, "reset", <<>>)>>]
    /\ UNCHANGED <<instances, pool, hook, pc, options, controllerRef, ops>>

\* ------------------------------------------------------ controller events
\* What controller record ctrl holds once its operation op has completed: a vote
\* that succeeded is remembered, a dismissal that succeeded is kept.
Completed(ctrl, op, ok) ==
    [ctrl EXCEPT !.voted = @ \/ (ok /\ op.votes),
                 !.dismissed = @ \cup (IF ok THEN op.dismisses ELSE {})]

\* The pending operation of an action call completes, with or without an error,
\* and its controller emits (or not) a final snapshot.  Nothing asynchronous runs
\* between the cleanup and the effect of one flush.
CtrlComplete(i) ==
    /\ pc # "effect"
    /\ ops[i].stage = "pending"
    /\ LET c == ops[i].ctrl
       IN \E ok \in BOOLEAN : \E err \in Errors :
          LET done == Completed(controllers[c], ops[i], ok)
          IN
          \E s \in FinalEmits(hook, done) :
          /\ ops' = [ops EXCEPT ![i].stage = IF ok THEN "ok" ELSE "failed",
                                ![i].err = IF ok THEN Null ELSE err]
          /\ controllers' =
                Collect([controllers EXCEPT ![c] = SetControllerState(hook, done, s)],
                        controllerRef, ops')
          /\ state' = Listener(controllers[c], s, state)
          /\ stateSrc' = ListenerSrc(controllers[c], c, s, stateSrc)
          /\ ev' = Emission("complete", c, controllers[c], s)
    /\ UNCHANGED <<instances, pool, hook, pc, options, controllerRef>>

\* The initial read the effect started on controller c completes.
CtrlReadComplete(c) ==
    /\ pc # "effect"
    /\ controllers[c].reading
    /\ \E s \in FinalEmits(hook, controllers[c]) :
          /\ controllers' =
                Collect([controllers EXCEPT ![c] =
                            [SetControllerState(hook, @, s) EXCEPT !.reading = FALSE]],
                        controllerRef, ops)
          /\ state' = Listener(controllers[c], s, state)
          /\ stateSrc' = ListenerSrc(controllers[c], c, s, stateSrc)
          /\ ev' = Emission("read", c, controllers[c], s)
    /\ UNCHANGED <<instances, pool, hook, pc, options, controllerRef, ops>>

Next ==
    \/ Mount
    \/ \E o \in Options(hook) : Render(o)
    \/ Cleanup
    \/ EffectBody
    \/ Unmount
    \/ \E fn \in Actions(hook) : \E args \in ArgLists(Arity(hook, fn)) : CallAction(fn, args)
    \/ \E I \in SUBSET (1..Len(ops)) : Resume(I)
    \/ CallReset
    \/ \E i \in 1..Len(ops) : CtrlComplete(i)
    \/ \E c \in 1..Len(controllers) : CtrlReadComplete(c)

Spec == Init /\ [][Next]_vars

\* ------------------------------------------- every operation completes, heard
\* The same hook under the assumption that every controller operation completes
\* and emits a final snapshot, and that React runs every scheduled cleanup and
\* effect and resumes every awaiting caller.
CtrlCompleteEmits(i) == CtrlComplete(i) /\ ev'.emitted

CtrlReadCompleteEmits(c) == CtrlReadComplete(c) /\ ev'.emitted

NextFair ==
    \/ Mount
    \/ \E o \in Options(hook) : Render(o)
    \/ Cleanup
    \/ EffectBody
    \/ Unmount
    \/ \E fn \in Actions(hook) : \E args \in ArgLists(Arity(hook, fn)) : CallAction(fn, args)
    \/ \E I \in SUBSET (1..Len(ops)) : Resume(I)
    \/ CallReset
    \/ \E i \in 1..Len(ops) : CtrlCompleteEmits(i)
    \/ \E c \in 1..Len(controllers) : CtrlReadCompleteEmits(c)

Fairness ==
    /\ WF_vars(Mount)
    /\ WF_vars(Cleanup)
    /\ WF_vars(EffectBody)
    /\ WF_vars(\E I \in SUBSET (1..Len(ops)) : Resume(I))
    /\ WF_vars(\E i \in 1..Len(ops) : CtrlCompleteEmits(i))
    /\ WF_vars(\E c \in 1..Len(controllers) : CtrlReadCompleteEmits(c))

SpecFair == Init /\ [][NextFair]_vars /\ Fairness

\* ------------------------------------------- two instances of the same hook
\* Two components (or two calls in one component) use the same hook with the same
\* options.  Each has its own useRef and useState cells; `pool` holds every
\* controller object in existence (`ctrl`, with what it holds) with the
\* listeners registered on it and its operations in flight (`busy`).
\* A module-level cache: the effect reuses a controller of the same
\* configuration when one exists instead of constructing its own.
InstConstructCached(p, h, o, i) ==
    IF \E c \in 1..Len(p) : /\ p[c].ctrl.config = Construct(h, o).config
                             /\ p[c].ctrl.fid = Construct(h, o).fid
    THEN p
    ELSE Append(p, [ctrl |-> Construct(h, o), listeners |-> {}, owner |-> i,
                    busy |-> <<>>])

\* `new XController(config, identifier)` in instance i's effect: a new object.
InstConstruct(p, h, o, i) ==
    Append(p, [ctrl |-> Construct(h, o), listeners |-> {}, owner |-> i,
               busy |-> <<>>])

\* controller.subscribe(setState) by instance i on controller c.
InstSubscribe(p, c, i) == [p EXCEPT ![c].listeners = @ \cup {i}]

\* Controller c notifies: every listener registered on it is a setState.
Deliver(insts, p, c, s) ==
    [j \in Instances |->
        IF j \in p[c].listeners /\ s # NoSnap
        THEN [insts[j] EXCEPT !.state = s, !.stateSrc = c]
        ELSE insts[j]]

InstMount(i) ==
    /\ instances[i].pc = "init"
    /\ instances' = [instances EXCEPT ![i].pc = "effect"]
    /\ UNCHANGED <<pool, hook, pc, options, controllerRef, state, stateSrc, controllers,
                   ops, ev>>

\* Instance i's effect: construct, store in its ref, subscribe its setState,
\* start the initial read.  The controller the effect holds is the last of the
\* pool it got back.
InstEffect(i) ==
    /\ instances[i].pc = "effect"
    /\ LET made == InstConstruct(pool, hook, options, i)
           c == Len(made)
           listening == InstSubscribe(made, c, i)
           auto == AutoTrigger(hook, options)
       IN \E emit \in SyncEmits(hook, listening[c].ctrl) :
            LET s == IF auto THEN emit ELSE NoSnap
            IN /\ pool' = [listening EXCEPT
                             ![c].ctrl = SetControllerState(hook, @, s),
                             ![c].busy =
                                @ \o (IF auto
                                      THEN <<Op(c, AutoMethod(hook), <<>>, "waiting")>>
                                      ELSE <<>>)]
               /\ instances' =
                    Deliver([instances EXCEPT ![i].pc = "idle", ![i].controllerRef = c],
                            listening, c, s)
    /\ UNCHANGED <<hook, pc, options, controllerRef, state, stateSrc, controllers, ops, ev>>

\* An action function of instance i: forwarded to the controller in its ref,
\* whether or not an earlier operation is still in flight there.
InstCallAction(i, fn, args) ==
    /\ instances[i].pc \in {"idle", "unmounted"}
    /\ LET c == instances[i].controllerRef
           fwd == Forward(hook, fn, args)
       IN /\ Len(pool[c].busy) < MaxCalls
          /\ \E s \in SyncEmits(hook, pool[c].ctrl) :
               /\ pool' = [pool EXCEPT
                              ![c].ctrl = SetControllerState(hook, @, s),
                              ![c].busy = Append(@, Op(c, fwd[1], fwd[2], "waiting"))]
               /\ instances' = Deliver(instances, pool, c, s)
    /\ UNCHANGED <<hook, pc, options, controllerRef, state, stateSrc, controllers, ops, ev>>

\* reset() of instance i: `controllerRef.current?.reset()`; the controller in
\* its ref returns to idle and notifies.  What is in flight stays in flight.
InstCallReset(i) ==
    /\ hook \in ResetHooks
    /\ instances[i].pc \in {"idle", "unmounted"}
    /\ LET c == instances[i].controllerRef
           s == IdleSnapshot(hook, pool[c].ctrl.fid)
       IN /\ pool' = [pool EXCEPT ![c].ctrl = SetControllerState(hook, @, s)]
          /\ instances' = Deliver(instances, pool, c, s)
    /\ UNCHANGED <<hook, pc, options, controllerRef, state, stateSrc, controllers, ops, ev>>

\* The k-th of the operations in flight on controller c completes, with or
\* without an error; c holds what the operation changed and notifies.
PoolComplete(c, k) ==
    /\ k \in 1..Len(pool[c].busy)
    /\ \E ok \in BOOLEAN :
         LET done == Completed(pool[c].ctrl, pool[c].busy[k], ok)
         IN \E s \in FinalEmits(hook, done) :
              /\ pool' = [pool EXCEPT
                             ![c].ctrl = SetControllerState(hook, done, s),
                             ![c].busy = SubSeq(@, 1, k - 1) \o SubSeq(@, k + 1, Len(@))]
              /\ instances' = Deliver(instances, pool, c, s)
    /\ UNCHANGED <<hook, pc, options, controllerRef, state, stateSrc, controllers, ops, ev>>

\* Instance i unmounts: its effect's cleanup removes its listener.
InstUnmount(i) ==
    /\ instances[i].pc = "idle"
    /\ instances' = [instances EXCEPT ![i].pc = "unmounted"]
    /\ pool' = [pool EXCEPT ![instances[i].controllerRef].listeners = @ \ {i}]
    /\ UNCHANGED <<hook, pc, options, controllerRef, state, stateSrc, controllers, ops, ev>>

NextInstances ==
    \/ \E i \in Instances : InstMount(i)
    \/ \E i \in Instances : InstEffect(i)
    \/ \E i \in Instances : \E fn \in Actions(hook) :
          \E args \in ArgLists(Arity(hook, fn)) : InstCallAction(i, fn, args)
    \/ \E i \in Instances : InstCallReset(i)
    \/ \E c \in 1..Len(pool) : \E k \in 1..MaxCalls : PoolComplete(c, k)
    \/ \E i \in Instances : InstUnmount(i)

SpecInstances == Init /\ [][NextInstances]_vars

\* ===================================================================== claims
\* Controller c is alive: it is the latest constructed and its teardown (the
\* effect's cleanup) has not run.
Alive(c) == c = Latest /\ pc \in {"idle", "cleanup"}

\* The step emitted a snapshot from a controller that was alive when it did (the
\* effect's own controller is alive throughout the effect body).
EmitsAlive == ev'.emitted /\ (ev'.kind = "effect" \/ Alive(ev'.ctrl))

EmitsTornDown == ev'.emitted /\ ev'.kind # "effect" /\ ~Alive(ev'.ctrl)

NumCalls(calls, m) == Cardinality({i \in 1..Len(calls) : calls[i].method = m})

ReadHooks == {"useReactions", "useComments", "useViews", "usePoll", "useAnnouncements"}

\* --------------------------------------------------------------------- C1
\* C1 as stated: once some controller's snapshot has been stored, every render of
\* any of the nine hooks returns that snapshot's fields unchanged.
C1_RenderReturnsSnapshotUnchanged ==
    (ev.kind = "render" /\ stateSrc # 0) =>
        \A f \in DOMAIN ev.ret \cap DOMAIN state : ev.ret[f] = state[f]

\* The fields of a render's result that are the stored snapshot's, verbatim.
VerbatimFields(h) ==
    CASE h = "useViews" -> {"views", "uniqueVisitors", "status", "error"}
      [] h = "useAnnouncements" -> {"status", "error"}
      [] OTHER -> DOMAIN InitialState(h, FirstOptions)

C1_RenderPart ==
    ev.kind = "render" =>
        /\ VerbatimFields(hook) \subseteq DOMAIN ev.ret
        /\ \A f \in VerbatimFields(hook) : ev.ret[f] = state[f]
        /\ hook = "useAnnouncements" =>
              ev.ret.announcements =
                 IF controllerRef = 0 THEN <<>>
                 ELSE SelectSeq(controllers[controllerRef].announcements,
                                LAMBDA a : a \notin controllers[controllerRef].dismissed)

C1_EmitPart == EmitsAlive => state' = ev'.snap

\* C1 (amended): every snapshot an alive controller emits becomes the stored state
\* whole, and a render returns the stored state's fields verbatim (useViews without
\* pageId); only the announcements list of useAnnouncements is not the snapshot's
\* but the referenced controller's visible (non-dismissed) announcements.
C1_MirrorsAliveSnapshots == [](C1_RenderPart) /\ [][C1_EmitPart]_vars

C1_Witness ==
    /\ ev.kind = "render"
    /\ hook = "useAnnouncements"
    /\ stateSrc = Latest
    /\ state.announcements = <<"x", "y">>
    /\ ev.ret.announcements = <<"y">>
    /\ ev.ret.status = "success"

\* --------------------------------------------------------------------- C2
\* C2: a snapshot emitted by a controller after its teardown (a newer controller
\* replaced it, or the component unmounted) leaves the stored state as it was; so
\* does the completion of an action that was pending when it was torn down.
C2_StaleSnapshotIgnored ==
    [][EmitsTornDown => state' = state /\ stateSrc' = stateSrc]_vars

C2_Witness ==
    /\ ev.kind = "complete"
    /\ ev.emitted
    /\ ev.ctrl < Latest
    /\ Len(ops) = 1 /\ ops[1].ctrl = ev.ctrl
    /\ pc = "idle"
    /\ state.status = "loading"

\* --------------------------------------------------------------------- C3
\* C3 as stated: while a controller is alive the stored snapshot, once any was
\* received, came from that controller, never from a replaced one.
C3_SnapshotFromAliveController ==
    Alive(Latest) => stateSrc \in {0, Latest}

\* --------------------------------------------------------------------- C4
\* The configuration tuple of the claim: site key, endpoint, and the identifier
\* where the hook's options have one.
ConfigTuple(h, o) ==
    IF h \in IdentifierOptionHooks
    THEN <<o.siteKey, o.endpoint, o.id>>
    ELSE <<o.siteKey, o.endpoint>>

Constructions == Len(controllers') - Len(controllers)

Deregistrations ==
    Cardinality({c \in 1..Len(controllers) :
                    controllers[c].subscribed /\ ~controllers'[c].subscribed})

C4_Step ==
    /\ ev'.kind = "render" /\ pc = "idle" =>
          /\ pc' = IF ConfigTuple(hook, options') # ConfigTuple(hook, options)
                   THEN "cleanup" ELSE "idle"
          /\ Constructions = 0 /\ Deregistrations = 0
    /\ pc = "cleanup" =>
          IF ev'.kind = "cleanup"
          THEN /\ pc' = "effect"
               /\ Constructions = 0 /\ Deregistrations = 1
               /\ ev'.invoked = <<Call(Latest, "unsubscribe", <<>>)>>
          ELSE pc' = "cleanup" /\ Constructions = 0 /\ Deregistrations = 0
    /\ pc = "effect" =>
          IF ev'.kind = "effect"
          THEN /\ pc' = "idle"
               /\ Constructions = 1 /\ Deregistrations = 0
               /\ NumCalls(ev'.invoked, "new") = 1
               /\ controllers'[Latest + 1].subscribed
          ELSE pc' = "effect" /\ Constructions = 0 /\ Deregistrations = 0
    /\ pc = "idle" /\ ev'.kind \notin {"render", "unmount"} =>
          pc' = "idle" /\ Constructions = 0 /\ Deregistrations = 0

\* C4: a render that changes an element of the configuration tuple schedules one
\* cleanup (one deregistration of the old listener, no construction) followed by
\* one effect (one construction); a render that changes none schedules nothing,
\* and no other step constructs or deregisters while mounted.
C4_OneTeardownOneConstruction == [][C4_Step]_vars

C4_Witness ==
    /\ ev.kind = "effect"
    /\ Latest = 2
    /\ controllers[2].subscribed
    /\ ~controllers[1].subscribed
    /\ options.endpoint = "e1"

\* --------------------------------------------------------------------- C5
\* The initial read operation of a read-oriented hook.
InitialRead(h) == IF h = "useViews" THEN "record" ELSE "fetch"

\* C5: in a read-oriented hook each run of the effect (each construction) invokes
\* the initial read once when the auto option is omitted or true and not at all
\* when it is false; apart from the effect only refresh/record calls invoke it.
C5_AutoTriggerOncePerController ==
    hook \in ReadHooks =>
        /\ ev.kind = "effect" =>
              NumCalls(ev.invoked, InitialRead(hook)) =
                 IF options.auto \in {"omitted", "true"} THEN 1 ELSE 0
        /\ ev.kind = "call" /\ ev.fn \notin {"refresh", "record"} =>
              NumCalls(ev.invoked, InitialRead(hook)) = 0
        /\ ev.kind \notin {"effect", "call"} =>
              NumCalls(ev.invoked, InitialRead(hook)) = 0
        /\ ev.kind = "effect" => controllers[Latest].reading = (options.auto # "false")

C5_Witness ==
    /\ hook = "useViews"
    /\ ev.kind = "effect"
    /\ Latest = 2
    /\ options.auto = "omitted"
    /\ NumCalls(ev.invoked, "record") = 1

\* --------------------------------------------------------------------- C6
\* The controller method that corresponds to each action function.
Corresponding(fn) ==
    CASE fn \in {"subscribe", "submit"} -> "submit"
      [] fn = "addReaction" -> "add"
      [] fn = "removeReaction" -> "remove"
      [] fn = "postComment" -> "post"
      [] fn = "refresh" -> "fetch"
      [] OTHER -> fn

\* C6 as stated: an action call made while controllerRef names a controller
\* invokes, on that controller, the corresponding method once with the call's
\* arguments in order, and nothing else.
C6_ForwardsVerbatim ==
    (ev.kind = "call" /\ controllerRef # 0) =>
        ev.invoked = <<Call(controllerRef, Corresponding(ev.fn), ev.args)>>

\* C6 (amended): such a call invokes the corresponding method once, and nothing
\* else, with one argument per declared parameter of the action function, in
\* declaration order: the call's argument at that position, undefined where the
\* call passed none; arguments beyond the declared parameters are not handed on.
C6_ForwardsDeclaredParameters ==
    (ev.kind = "call" /\ controllerRef # 0) =>
        /\ Len(ev.invoked) = 1
        /\ ev.invoked[1].ctrl = controllerRef
        /\ ev.invoked[1].method = Corresponding(ev.fn)
        /\ Len(ev.invoked[1].args) = Arity(hook, ev.fn)
        /\ \A k \in 1..Arity(hook, ev.fn) :
              ev.invoked[1].args[k] =
                 IF k <= Len(ev.args) THEN ev.args[k] ELSE "undefined"

\* C6 witness: postComment called with two arguments, its optional third
\* parameter left out, has invoked post with three.
C6_Witness ==
    /\ ev.kind = "call"
    /\ ev.fn = "postComment"
    /\ ev.args = <<"x", "y">>
    /\ ev.invoked = <<Call(1, "post", <<"x", "y", "undefined">>)>>

\* --------------------------------------------------------------------- C7
\* C7: the promise of an action call is settled only when the controller
\* operation it forwarded to has completed.
C7_ResolvesAfterOperation ==
    \A i \in 1..Len(ops) :
        ops[i].promise \in {"resolved", "rejected"} => ops[i].stage # "pending"

C7_Witness ==
    /\ Len(ops) = 1
    /\ ops[1].ctrl # 0
    /\ ops[1].promise = "resolved"
    /\ ops[1].stage = "ok"
    /\ ev.kind = "resume"

\* --------------------------------------------------------------------- C8
\* The controller of the configuration just rendered: the latest one once its
\* effect has run; none while that effect is still to run.
CurrentController == IF pc = "idle" THEN Latest ELSE 0

\* C8 as stated: a render of usePoll returns hasVoted() of the controller of the
\* rendered configuration, a render of useAnnouncements its visible announcements
\* (false / empty while that controller does not exist yet), never the answer of
\* a previous configuration's controller.
C8_QueriesCurrentController ==
    ev.kind = "render" =>
        /\ hook = "usePoll" =>
              ev.ret.hasVoted =
                 IF CurrentController = 0 THEN FALSE
                 ELSE controllers[CurrentController].voted
        /\ hook = "useAnnouncements" =>
              ev.ret.announcements =
                 IF CurrentController = 0 THEN <<>>
                 ELSE SelectSeq(controllers[CurrentController].announcements,
                                LAMBDA a : a \notin controllers[CurrentController].dismissed)

\* --------------------------------------------------------------------- C9
Registered(ctrls) == {c \in 1..Len(ctrls) : ctrls[c].subscribed}

C9_AtMostLatest == Registered(controllers) \subseteq {Latest}

C9_Order ==
    Registered(controllers') \ Registered(controllers) # {} =>
        /\ Registered(controllers) = {}
        /\ Registered(controllers') = {Len(controllers')}

\* C9: the hook's listener is registered on at most one controller, the most
\* recently constructed one, and a step that registers it on a new controller
\* starts from a state where it is registered on none.
C9_OneRegisteredController == [](C9_AtMostLatest) /\ [][C9_Order]_vars

C9_Witness ==
    /\ ev.kind = "effect"
    /\ Latest = 2
    /\ Registered(controllers) = {2}
    /\ hook = "useWaitlist"

\* -------------------------------------------------------------------- C10
C10_PromisePart ==
    \A i \in 1..Len(ops) :
        (ops[i].ctrl # 0 /\ ops[i].promise # "waiting") =>
            /\ ops[i].stage = "failed" =>
                  ops[i].promise = "rejected" /\ ops[i].perr = ops[i].err
            /\ ops[i].stage = "ok" => ops[i].promise = "resolved"

C10_StatePart ==
    state' # state => ev'.emitted /\ ev'.snap = state'

\* C10: when the operation an action forwarded to fails, the action's promise is
\* rejected with the same error; and the stored state changes only in a step in
\* which a controller emits a snapshot, to that snapshot, so an error status is
\* there only if a controller's snapshot carried it.
C10_ErrorsPassThrough == [](C10_PromisePart) /\ [][C10_StatePart]_vars

C10_Witness ==
    /\ ev.kind = "resume"
    /\ Len(ops) = 1
    /\ ops[1].stage = "failed"
    /\ ops[1].promise = "rejected"
    /\ ops[1].perr = "E1"
    /\ state.status # "error"

\* -------------------------------------------------------------------- C11
\* C11: in a hook that supports reset, a reset() call made while a controller is
\* alive invokes that controller's reset once and nothing else, and the hook's
\* status after the call is idle.
C11_ResetForwardsOnce ==
    (ev.kind = "reset" /\ Alive(Latest)) =>
        /\ hook \in {"useSubscribe", "useForm", "useWaitlist", "useFeedback"}
        /\ ev.invoked = <<Call(Latest, "reset", <<>>)>>
        /\ state.status = "idle"
        /\ stateSrc = Latest

C11_Witness ==
    /\ ev.kind = "reset"
    /\ hook = "useWaitlist"
    /\ pc = "idle"
    /\ Latest = 1
    /\ Len(ops) = 1 /\ ops[1].stage = "ok" /\ ops[1].promise = "resolved"
    /\ state.status = "idle"

\* -------------------------------------------------------------------- C12
\* C12 as stated: once a teardown has finished (the cleanup of a configuration
\* change has run, or the component is unmounted) the hook holds no reference to
\* the controller that was torn down.
C12_NoReferenceAfterTeardown ==
    pc \in {"effect", "unmounted"} => controllerRef = 0

\* -------------------------------------------------------------------- C13
\* C13: with two instances of a hook under the same configuration, every instance
\* whose effect has run has constructed a controller of its own; a controller
\* carries only the listener of the instance that constructed it; an instance's
\* ref names only its own controller; and an instance's state was only ever
\* written by a notification of its own controller.
C13_NoSharedController ==
    /\ Len(pool) = Cardinality({i \in Instances : instances[i].pc \in {"idle", "unmounted"}})
    /\ \A c \in 1..Len(pool) : pool[c].listeners \subseteq {pool[c].owner}
    /\ \A i \in Instances :
          /\ instances[i].controllerRef # 0 => pool[instances[i].controllerRef].owner = i
          /\ instances[i].stateSrc # 0 => pool[instances[i].stateSrc].owner = i

C13_Witness ==
    /\ Len(pool) = 2
    /\ pool[1].ctrl = pool[2].ctrl
    /\ pool[1].listeners \cup pool[2].listeners = Instances
    /\ instances[1].stateSrc # 0 /\ instances[2].stateSrc # 0
    /\ instances[1].state.status = "success"
    /\ instances[2].state.status = "loading"

\* -------------------------------------------------------------------- C14
\* The README's use of the view-count hook: default options, and the component's
\* own mount effect, which runs right after the hook's effect, calls record().
ReadmeRecordCall ==
    /\ hook = "useViews"
    /\ options.auto = "omitted"
    /\ ev.kind = "effect" /\ Latest = 1
    /\ ev'.kind = "call" /\ ev'.fn = "record"

\* C14 as stated: in that use the hook's effect and the component's record() call
\* together invoke the controller's record operation exactly once.
C14_ReadmeRecordsOnce ==
    [][ReadmeRecordCall =>
          NumCalls(ev.invoked, "record") + NumCalls(ev'.invoked, "record") = 1]_vars

\* -------------------------------------------------------------------- C15
\* The option a hook reads as its controller's identifier ("none": it has none).
IdentifierOption(h) ==
    CASE h = "useForm" -> "formSlug"
      [] h \in {"useReactions", "useComments"} -> "contentId"
      [] h = "useViews" -> "pageId"
      [] h = "usePoll" -> "slug"
      [] OTHER -> "none"

\* Every name in the object hook h returns.
ReturnedNames(h) ==
    DOMAIN Return(h, InitialState(h, FirstOptions), 0, <<>>)
        \cup Actions(h) \cup (IF h \in ResetHooks THEN {"reset"} ELSE {})

\* README.md: the hooks of its table, the names its examples destructure, and the
\* identifier option its examples pass.
ReadmeHooks ==
    {"useSubscribe", "useReactions", "useComments", "useForm", "useWaitlist",
     "useFeedback", "usePoll", "useAnnouncements", "useViewCounts"}

ReadmeDestructured(h) ==
    CASE h = "useSubscribe" -> {"submit", "status", "message", "error"}
      [] h = "useReactions" -> {"counts", "userReactions", "add", "remove", "status"}
      [] h = "useComments" -> {"comments", "post", "status", "error"}
      [] h = "useForm" -> {"submit", "status", "message"}
      [] h = "useWaitlist" -> {"join", "status", "message", "position"}
      [] h = "useFeedback" -> {"submit", "status", "message"}
      [] h = "usePoll" -> {"poll", "vote", "hasVoted", "status"}
      [] h = "useAnnouncements" -> {"announcements", "dismiss", "status"}
      [] OTHER -> {"views", "uniqueVisitors", "record", "status"}

ReadmeIdentifierOption(h) ==
    CASE h = "useForm" -> "formSlug"
      [] h \in {"useReactions", "useComments"} -> "pageId"
      [] h = "usePoll" -> "pollId"
      [] h = "useViewCounts" -> "pageId"
      [] OTHER -> "none"

\* C15 as stated: the hooks of the README table are all exported, and for the
\* hook in use the names the README destructures are names the hook returns and
\* the identifier option the README passes is the one the hook reads.
C15_ReadmeNamesExist ==
    /\ ReadmeHooks \subseteq Hooks
    /\ hook \in ReadmeHooks =>
          /\ ReadmeDestructured(hook) \subseteq ReturnedNames(hook)
          /\ ReadmeIdentifierOption(hook) = IdentifierOption(hook)

\* -------------------------------------------------------------------- C16
C16_Step ==
    /\ state' # state =>
          /\ ev'.emitted /\ ev'.snap = state'
          /\ IF ev'.kind = "effect" THEN controllers'[ev'.ctrl].subscribed
             ELSE controllers[ev'.ctrl].subscribed
    /\ ev'.kind \in {"render", "cleanup", "unmount", "resume"} => state' = state
    /\ (ev'.kind \in {"call", "reset"} /\ ~ev'.emitted) => state' = state

\* C16: the stored state changes only in a step in which a controller on which
\* the hook's listener is registered notifies, and then to the snapshot notified;
\* a render (with or without a configuration change), a cleanup, an unmount, a
\* caller's resumption, and an action or reset call in which the controller emits
\* nothing leave it as it was.
C16_PassiveRelay == [][C16_Step]_vars

C16_Witness ==
    /\ ev.kind = "render"
    /\ pc = "cleanup"
    /\ hook = "useFeedback"
    /\ state.status = "error"
    /\ stateSrc = Latest

\* -------------------------------------------------------------------- C17
\* In the calls of an effect run, every initial read is preceded by a subscribe
\* on the same controller.
SubscribedBeforeRead(calls, h) ==
    \A j \in 1..Len(calls) :
        calls[j].method = InitialRead(h) =>
            \E i \in 1..(j - 1) :
                calls[i].method = "subscribe" /\ calls[i].ctrl = calls[j].ctrl

C17_EffectPart ==
    (hook \in ReadHooks /\ ev.kind = "effect") =>
        /\ SubscribedBeforeRead(ev.invoked, hook)
        /\ NumCalls(ev.invoked, InitialRead(hook)) > 0 =>
              /\ ev.emitted /\ ev.snap.status = "loading"
              /\ state = ev.snap /\ stateSrc = Latest

C17_ReadPart ==
    (ev'.kind = "read" /\ ev'.emitted /\ Alive(ev'.ctrl)) =>
        state' = ev'.snap /\ stateSrc' = ev'.ctrl

\* C17 (amended): the effect of a read-oriented hook invokes the initial read
\* only after it has subscribed on the same controller; the first snapshot of the
\* read is in the stored state when the effect ends, and the snapshot of its
\* completion is stored too when the listener is still registered, that is, when
\* no cleanup (configuration change or unmount) has run since.
C17_InitialReadIsHeard == [](C17_EffectPart) /\ [][C17_ReadPart]_vars

\* C17 as stated: the initial read is invoked only after the subscribe on the same
\* controller, and every snapshot the initial read emits, the first one and the
\* one of its completion, is delivered to the hook and is its stored state.
C17_EveryReadSnapshotDelivered ==
    /\ C17_EffectPart
    /\ (hook \in ReadHooks /\ ev.kind = "read" /\ ev.emitted) =>
          /\ ev.snap # NoSnap
          /\ state = ev.snap /\ stateSrc = ev.ctrl

C17_Witness ==
    /\ hook = "useComments"
    /\ ev.kind = "read"
    /\ ev.ctrl = Latest /\ Latest = 2
    /\ pc = "idle"
    /\ state.status = "success"
    /\ stateSrc = 2

\* -------------------------------------------------------------------- C18
\* The step's emission reaches the hook: its controller has the hook's listener
\* (the effect's own emission comes after its subscribe).
Heard ==
    /\ ev'.emitted
    /\ IF ev'.kind = "effect" THEN controllers'[ev'.ctrl].subscribed
       ELSE controllers[ev'.ctrl].subscribed

C18_Step ==
    IF Heard
    THEN state' = ev'.snap /\ stateSrc' = ev'.ctrl
    ELSE state' = state /\ stateSrc' = stateSrc

\* C18: each snapshot the subscribed controller emits replaces the stored state
\* whole in the step it is emitted, whatever the stored state was, and no other
\* step touches the stored state; so after any sequence of emissions the stored
\* state is the last snapshot emitted.
C18_LastSnapshotWins == [][C18_Step]_vars

C18_Witness ==
    /\ hook = "useWaitlist"
    /\ ev.kind = "complete"
    /\ ev.emitted
    /\ Alive(ev.ctrl)
    /\ state = ev.snap
    /\ state.status = "success"
    /\ state.position = {7}

\* -------------------------------------------------------------------- C19
\* The controller methods an effect run may invoke by itself.
EffectMethods(h, o) ==
    {"new", "subscribe"}
        \cup (IF h \in ReadHooks /\ o.auto # "false" THEN {InitialRead(h)} ELSE {})

\* C19: an action or reset call made while controllerRef is still null invokes
\* nothing, emits nothing and leaves the stored state the initial one; its promise
\* is pending or resolved, never rejected; and the effect that later constructs
\* the controller invokes only its own calls, not the earlier one.
C19_AbsentControllerNoOp ==
    /\ (ev.kind \in {"call", "reset"} /\ controllerRef = 0) =>
          /\ ev.invoked = <<>> /\ ~ev.emitted
          /\ state = InitialState(hook, options) /\ stateSrc = 0
    /\ \A i \in 1..Len(ops) :
          ops[i].ctrl = 0 =>
              /\ ops[i].promise \in {"waiting", "resolved"}
              /\ ops[i].perr = Null
    /\ ev.kind = "effect" =>
          \A j \in 1..Len(ev.invoked) :
              ev.invoked[j].method \in EffectMethods(hook, options)

C19_Witness ==
    /\ hook = "useForm"
    /\ ev.kind = "resume"
    /\ Len(ops) = 1 /\ ops[1].ctrl = 0 /\ ops[1].promise = "resolved"
    /\ Latest = 1 /\ controllerRef = 1
    /\ state = InitialState(hook, options)

\* -------------------------------------------------------------------- C20
\* The announcements of the list a render returned.
Returned == {ev.ret.announcements[k] : k \in 1..Len(ev.ret.announcements)}

\* The list a render returns has nothing the controller of the current
\* configuration holds as dismissed (that controller exists once the effect of
\* the configuration has run).
C20_NoneHeldDismissed ==
    pc = "idle" => Returned \cap controllers[Latest].dismissed = {}

\* The announcements whose dismiss call has completed on one of the controllers cs.
DismissCompleted(cs) ==
    UNION {ops[i].dismisses : i \in {j \in 1..Len(ops) :
                                        ops[j].stage = "ok" /\ ops[j].ctrl \in cs}}

\* C20 (amended): the list a render of useAnnouncements returns contains no
\* announcement that the controller of the current configuration holds as
\* dismissed; and once dismiss(id) has completed on a controller, no later render
\* that reads this controller returns the announcement with that id.
C20_NoDismissedAnnouncement ==
    (hook = "useAnnouncements" /\ ev.kind = "render") =>
        /\ C20_NoneHeldDismissed
        /\ Returned \cap DismissCompleted({controllerRef}) = {}

\* C20 as stated: the list a render returns contains no announcement that the
\* controller of the current configuration holds as dismissed, and once
\* dismiss(id) has completed no later render at all returns that announcement.
C20_DismissedNeverReturned ==
    (hook = "useAnnouncements" /\ ev.kind = "render") =>
        /\ C20_NoneHeldDismissed
        /\ Returned \cap DismissCompleted(1..MaxControllers) = {}

\* A render after dismiss("x") and a later refresh have both completed on the
\* controller it reads: the controller holds x and y, the render returns y only.
C20_Witness ==
    /\ hook = "useAnnouncements"
    /\ ev.kind = "render" /\ pc = "idle"
    /\ Len(ops) = 2
    /\ ops[1].ctrl = controllerRef /\ ops[1].stage = "ok" /\ ops[1].dismisses = {"x"}
    /\ ops[2].ctrl = controllerRef /\ ops[2].stage = "ok" /\ ops[2].dismisses = {}
    /\ controllers[Latest].announcements = <<"x", "y">>
    /\ ev.ret.announcements = <<"y">>

\* -------------------------------------------------------------------- C21
\* A render that changes the auto-trigger option and nothing of the
\* configuration tuple.
AutoOnlyRender ==
    /\ ev'.kind = "render" /\ pc = "idle"
    /\ options'.auto # options.auto
    /\ ConfigTuple(hook, options') = ConfigTuple(hook, options)

\* C21: such a render schedules no cleanup and no effect, constructs and
\* deregisters nothing and invokes no controller method; the controllers are as
\* they were.
C21_AutoOptionIsNotADependency ==
    [][AutoOnlyRender =>
          /\ pc' = "idle"
          /\ Constructions = 0 /\ Deregistrations = 0
          /\ ev'.invoked = <<>>
          /\ controllers' = controllers /\ controllerRef' = controllerRef]_vars

C21_Witness ==
    /\ hook = "useReactions"
    /\ ev.kind = "render" /\ pc = "idle"
    /\ options.auto = "false"
    /\ Latest = 1
    /\ controllers[1].reading

\* -------------------------------------------------------------------- C22
\* C22 as stated: the controller an action or reset call invokes a method on has
\* the hook's listener registered when the call is made.
C22_CallsReachRegisteredController ==
    (ev.kind \in {"call", "reset"} /\ ev.invoked # <<>>) =>
        \A j \in 1..Len(ev.invoked) : controllers[ev.invoked[j].ctrl].subscribed

\* -------------------------------------------------------------------- C23
\* C23 as stated: while the component is mounted, a stored status of loading is
\* followed by a status of idle, success or error (every operation completing
\* with a final snapshot), also across a configuration change.
C23_LoadingEnds ==
    (state.status = "loading" /\ pc # "unmounted")
        ~> (state.status \in {"idle", "success", "error"} \/ pc = "unmounted")

\* -------------------------------------------------------------------- C24
\* The controller methods of the hook's lifecycle: construction, registration
\* and deregistration of the listener.
LifecycleMethods == {"new", "subscribe", "unsubscribe"}

\* C24: a write-oriented hook (useSubscribe, useForm, useWaitlist, useFeedback)
\* invokes in a mount, render, cleanup, effect or unmount step only the
\* constructor, subscribe and the deregistration function; an action method is
\* invoked only in the step of an explicit call of the corresponding returned
\* function, and reset only in the step of an explicit reset().
C24_WriteHooksActOnlyWhenCalled ==
    hook \in ResetHooks =>
        \A j \in 1..Len(ev.invoked) :
            CASE ev.kind = "call" -> ev.invoked[j].method = Corresponding(ev.fn)
              [] ev.kind = "reset" -> ev.invoked[j].method = "reset"
              [] OTHER -> ev.invoked[j].method \in LifecycleMethods

\* C24 witness: the effect of a configuration change of useWaitlist has just
\* constructed and subscribed the second controller, and invoked nothing else.
C24_Witness ==
    /\ hook = "useWaitlist"
    /\ ev.kind = "effect"
    /\ Latest = 2
    /\ Len(ev.invoked) = 2

\* -------------------------------------------------------------------- C25
\* The four values of the observable status.
Statuses == {"idle", "loading", "success", "error"}

\* The fixed initial observable record of each hook, as the claim words it:
\* status idle, error null and an empty payload.
InitialObservable(h) ==
    CASE h \in {"useSubscribe", "useForm", "useFeedback"} ->
            [status |-> "idle", message |-> Null, error |-> Null]
      [] h = "useWaitlist" ->
            [status |-> "idle", message |-> Null, position |-> {}, error |-> Null]
      [] h = "useReactions" ->
            [counts |-> {}, userReactions |-> <<>>, status |-> "idle", error |-> Null]
      [] h = "useComments" ->
            [comments |-> <<>>, status |-> "idle", error |-> Null]
      [] h = "useViews" ->
            [views |-> 0, uniqueVisitors |-> 0, status |-> "idle", error |-> Null]
      [] h = "usePoll" ->
            [poll |-> Null, status |-> "idle", error |-> Null, hasVoted |-> FALSE]
      [] h = "useAnnouncements" ->
            [announcements |-> <<>>, status |-> "idle", error |-> Null]

\* C25: a render made while no notification has been stored (stateSrc = 0)
\* returns the hook's fixed initial record (status idle, error null, empty
\* payload), whatever the options and however many controllers were
\* constructed; and in every reachable state the status the hook holds, which
\* is the status every render returns, is idle, loading, success or error.
C25_InitialRecordAndStatusDomain ==
    /\ state.status \in Statuses
    /\ ev.kind = "render" => ev.ret.status = state.status
    /\ (ev.kind = "render" /\ stateSrc = 0) => ev.ret = InitialObservable(hook)

\* C25 witness: useViews rendered with autoRecord false after its effect ran:
\* a controller exists and no notification has arrived yet.
C25_Witness ==
    /\ hook = "useViews"
    /\ options.auto = "false"
    /\ ev.kind = "render" /\ pc = "idle"
    /\ Latest = 1
    /\ stateSrc = 0
    /\ ev.ret = InitialObservable("useViews")

====
